---- MODULE Spec2Model ----
(***************************************************************************)
(* Task orchestration core of the music-video orchestrator: the task       *)
(* store, the task queue, the task processor, the reentrant step engine    *)
(* and the WebSocket feedback handler.                                     *)
(*                                                                         *)
(* Granularity.  A chain (one processTask invocation or one WebSocket      *)
(* feedback handler) advances in actions that each span the code between   *)
(* two awaits at which the chain can be kept waiting: a call to a          *)
(* collaborator (agent card, generation, extraction, LLM), a store write   *)
(* (createTask and updateTask await the registered listeners) and the      *)
(* settling of processTask.  getTask awaits nothing: it is a Map lookup,   *)
(* and the code after `await getTask` runs before any other handler is     *)
(* dispatched, so the read and the code that uses it are one action.       *)
(* Objects are references:                                                 *)
(* the store, the queue and every chain hold object identifiers into heap, *)
(* and metadata objects are identifiers into cells, so that in-place       *)
(* mutation and sharing through object spread behave as in the source.     *)
(***************************************************************************)
EXTENDS Integers, Sequences, FiniteSets, TLC

(* ---- bounds of the model ---- *)
MaxTasks == 4          \* tasks created under SpecQueue; task identifiers are 1..MaxTasks
MaxSysTasks == 1       \* tasks created under Spec and SpecSeq
MaxFeedback == 1       \* feedback messages under Spec
MaxSeqFeedback == 2    \* feedback messages under SpecSeq
MaxInFlight == 1       \* feedback handlers that have not answered yet
MaxLiveTasks == 3      \* tasks created under SpecQueueLive
MaxDupTasks == 2
MaxStoreCalls == 3
MaxIoCalls == 2
MaxRequests == 2
MaxSockTasks == 2
MaxRetryRuns == 2
MaxRetriesArg == 3       \* tasks created under SpecQueueDup

(* ---- program constants ---- *)
maxConcurrent == 2
maxRetries == 3

(* TaskState, src/src/models/task.ts *)
SUBMITTED == "submitted"
WORKING == "working"
INPUT_REQUIRED == "input-required"
COMPLETED == "completed"
CANCELLED == "cancelled"
FAILED == "failed"
TaskState == {SUBMITTED, WORKING, INPUT_REQUIRED, COMPLETED, CANCELLED, FAILED}
TerminalStates == {COMPLETED, CANCELLED, FAILED}

(* OrchestrationStep, src/src/orchestrator.ts; NoStep is an undefined currentStep *)
GENERATE_SONG == "generate_song"
GENERATE_SCRIPT_AND_EXTRACT_ENTITIES == "generate_script_and_extract_entities"
GENERATE_IMAGES == "generate_images"
GENERATE_VIDEO_CLIPS == "generate_video_clips"
COMPILE_AND_UPLOAD_VIDEO == "compile_and_upload_video"
STEP_COMPLETED == "completed"
STEP_FAILED == "failed"
NoStep == "undefined"
OrchestrationStep == {GENERATE_SONG, GENERATE_SCRIPT_AND_EXTRACT_ENTITIES, GENERATE_IMAGES,
                      GENERATE_VIDEO_CLIPS, COMPILE_AND_UPLOAD_VIDEO, STEP_COMPLETED, STEP_FAILED}

TaskIds == 1..MaxTasks
(* listener 0 is the one the A2AController registers; listener t is the one a
   WebSocket connection registers for the task t it creates *)
Listeners == 0..MaxTasks

VARIABLES
  heap,        \* per task id, the Task objects made for it; an object identifier is an index
  cells,       \* per task id, the metadata objects made for it (their currentStep)
  store,       \* TaskStore.tasks: task id -> object identifier, 0 = absent
  listeners,   \* TaskStore.statusListeners: the registered listeners
  regAt,       \* per registered listener and task, the length of applied at registration
  queue,       \* TaskQueue.queue: chains whose Task waits in the backlog
  processing,  \* TaskQueue.processing: set of task ids
  ch,          \* chains: chain t is the processTask invocation of task t, chain FbBase + k the k-th feedback handler
  delivered,   \* per listener and task, the snapshots it was invoked with, in order
  applied,     \* per task, the snapshots createTask/updateTask stored, in order
  enqueued,    \* the chains enqueueTask was called with, in order
  admitted,    \* the chains whose processor was started, in order
  removed,     \* the listeners removeStatusListener was called for
  calls,       \* the createTask/updateTask calls made on the store directly, with their outcome
  requests,    \* the tasks/send requests received with a message of a given shape, with their answer
  retry        \* the invocations of withRetry, each with its arguments, loop state and log

vars == <<heap, cells, store, listeners, regAt, queue, processing, ch, delivered, applied, enqueued,
          admitted, removed, calls, requests, retry>>

World ==
  [heap |-> heap, cells |-> cells, store |-> store, listeners |-> listeners, regAt |-> regAt,
   queue |-> queue,
   processing |-> processing, ch |-> ch, delivered |-> delivered, applied |-> applied,
   enqueued |-> enqueued, admitted |-> admitted, removed |-> removed, calls |-> calls,
   requests |-> requests, retry |-> retry]

Commit(W) ==
  /\ heap' = W.heap
  /\ cells' = W.cells
  /\ store' = W.store
  /\ listeners' = W.listeners
  /\ regAt' = W.regAt
  /\ queue' = W.queue
  /\ processing' = W.processing
  /\ ch' = W.ch
  /\ delivered' = W.delivered
  /\ applied' = W.applied
  /\ enqueued' = W.enqueued
  /\ admitted' = W.admitted
  /\ removed' = W.removed
  /\ calls' = W.calls
  /\ requests' = W.requests
  /\ retry' = W.retry

(* ---- Task objects ---- *)

(* task.metadata?.currentStep of the object o of task t *)
currentStepOf(W, t, o) ==
  IF W.heap[t][o].meta = 0 THEN NoStep ELSE W.cells[t][W.heap[t][o].meta]

Snapshot(W, t, o) ==
  [state |-> W.heap[t][o].state, hist |-> Len(W.heap[t][o].history),
   step |-> currentStepOf(W, t, o)]

(* ---- TaskStore ---- *)

(* a store that notifies a listener only when the state differs from the one
   it was last given *)
notifyStatusListeners_coalescing(W, t, o) ==
  [W EXCEPT !.delivered =
     [L \in Listeners |->
        IF L \in W.listeners
             /\ ~(Len(W.delivered[L][t]) > 0
                   /\ W.delivered[L][t][Len(W.delivered[L][t])].state = W.heap[t][o].state)
          THEN [W.delivered[L] EXCEPT ![t] = Append(@, Snapshot(W, t, o))]
          ELSE W.delivered[L]]]

(* a store whose notification list is never pruned: a removed listener is
   still invoked *)
notifyStatusListeners_neverPruned(W, t, o) ==
  [W EXCEPT !.delivered =
     [L \in Listeners |-> IF L \in W.listeners \cup W.removed
                             THEN [W.delivered[L] EXCEPT ![t] = Append(@, Snapshot(W, t, o))]
                             ELSE W.delivered[L]]]

notifyStatusListeners(W, t, o) ==
  [W EXCEPT !.delivered =
     [L \in Listeners |-> IF L \in W.listeners
                             THEN [W.delivered[L] EXCEPT ![t] = Append(@, Snapshot(W, t, o))]
                             ELSE W.delivered[L]]]

createTask(W, t, o) ==
  notifyStatusListeners(
    [W EXCEPT !.store[t] = o, !.applied[t] = Append(@, Snapshot(W, t, o))], t, o)

getTask(W, taskId) == W.store[taskId]

(* an updateTask that stores the record and returns without invoking the
   listeners *)
updateTask_unnotified(W, t, o) ==
  [W EXCEPT !.store[t] = o, !.applied[t] = Append(@, Snapshot(W, t, o))]

updateTask(W, t, o) ==
  notifyStatusListeners(
    [W EXCEPT !.store[t] = o, !.applied[t] = Append(@, Snapshot(W, t, o))], t, o)

(* what the promise of notifyStatusListeners settles to when the listeners of
   the set failing reject: Promise.all rejects as soon as one of its promises
   does, and createTask/updateTask await it without a try *)
notifyOutcome(W, failing) ==
  IF failing \cap W.listeners # {} THEN "listener failed" ELSE ""

addStatusListener(W, L) ==
  [W EXCEPT !.listeners = @ \cup {L},
            !.regAt[L] = [t \in TaskIds |-> Len(W.applied[t])]]

(* removeStatusListener(listener): deregisters the callback *)
removeStatusListener(W, L) ==
  [W EXCEPT !.listeners = @ \ {L}, !.removed = @ \cup {L}]

(* ---- push notifications (a2aController status listener) ---- *)

STATUS_UPDATE == "status_update"
COMPLETION == "completion"

(* the events the controller's listener writes to an SSE response subscribed
   with subscribeSSE when it is invoked with a task: it calls
   pushNotificationService.notify with a completion event for a final
   state and with a status_update event otherwise;
   streamingService.notifyTaskUpdate writes to the connections of
   StreamingService.subscribe, which no handler calls *)
listenerEvents(snap) ==
  IF snap.state \in TerminalStates
    THEN <<[type |-> COMPLETION, state |-> snap.state]>>
    ELSE <<[type |-> STATUS_UPDATE, state |-> snap.state]>>

RECURSIVE eventsOf(_)
eventsOf(snaps) ==
  IF snaps = <<>> THEN <<>> ELSE listenerEvents(Head(snaps)) \o eventsOf(Tail(snaps))

(* ---- chains ---- *)

(* chain identifiers above the task identifiers are feedback handlers *)
FbBase == MaxTasks
IsFb(c) == c > FbBase
NumTasks(W) == Cardinality({t \in TaskIds : W.store[t] # 0})
NumFeedback(W) == Cardinality({c \in DOMAIN W.ch : IsFb(c)})

(* no history entry (null) *)
NoEntry == [role |-> "none", text |-> ""]

(* what a step hands to its generation collaborator: the synthesized input
   of the feedback (src "newInput"), the last entry of task.history (src
   "lastEntry", the entry itself in entry) or the whole of task.history (src
   "history"); src "none" while no step has taken its input *)
NoInput == [src |-> "none", entry |-> NoEntry]

(* handleUserFeedback: the messages of a history whose role is 'user', and
   the last of them, NoEntry (null) when there is none *)
userMessages(history) == SelectSeq(history, LAMBDA msg : msg.role = "user")
userComment(history) ==
  IF userMessages(history) = <<>> THEN NoEntry
  ELSE userMessages(history)[Len(userMessages(history))]

(* the entity extractions of the script step: characters, settings, scenes.
   A chain's ext counts those started and those completed, and tells
   whether one has failed *)
Extractions == 3

NewChain(kind, tid, task, pc) ==
  [kind |-> kind, tid |-> tid, task |-> task, pc |-> pc, err |-> "",
   res |-> <<>>, action |-> "", reply |-> "", gen |-> 0,
   atArrival |-> "", seen |-> <<>>, quiet |-> FALSE, parked |-> NoStep, target |-> NoStep,
   waited |-> FALSE, at |-> NoStep, dispatched |-> FALSE, prog |-> <<>>,
   enqReturned |-> FALSE, mode |-> "",
   ext |-> [started |-> 0, done |-> 0, failed |-> FALSE],
   input |-> NoInput, newInput |-> FALSE, interpreted |-> FALSE]

(* a history entry: a message with a role, or a status snapshot (no role) *)
UserMessage == [role |-> "user", text |-> "user"]

(* the roles a client gives the messages it sends; nothing examines them
   on arrival *)
Roles == {"user", "agent"}

(* the message of the feedback request that chain c handles *)
ClientMessage(role, c) == [role |-> role, text |-> "feedback " \o ToString(c)]
AgentMessage(text) == [role |-> "agent", text |-> text]
StatusEntry(state, text) == [role |-> "none", text |-> text]

(* ---- OrchestrationIO ---- *)

(* a progress: arts = <<TRUE, a>> when progress.artifacts is given,
   step = the currentStep of progress.metadata, NoStep when it has none *)
Progress(state, text, arts, step) == [state |-> state, text |-> text, arts |-> arts, step |-> step]

(* the error TaskProcessor.updateTaskStatus throws: "" when the task is stored *)
updateTaskStatusError(W, c) ==
  IF getTask(W, W.ch[c].tid) = 0 THEN "Task not found" ELSE ""

(* TaskProcessor.updateTaskStatus: the new record is a spread of the stored
   one and shares its metadata object; nothing is stored when the task is
   not found *)
updateTaskStatus(W, c, state, text, arts) ==
  LET t == W.ch[c].tid
  IN IF getTask(W, t) = 0 THEN W
     ELSE
       LET old == W.heap[t][getTask(W, t)]
           new == [old EXCEPT !.state = state, !.msg = text,
                              !.artifacts = IF arts[1] THEN arts[2] ELSE @,
                              !.history = Append(@, StatusEntry(state, text))]
           W1 == [W EXCEPT !.heap[t] = Append(@, new)]
       IN updateTask(W1, t, Len(W1.heap[t]))

(* TaskProcessorOrchestrationIO.onProgress: progress.metadata is not passed on *)
TaskProcessorOrchestrationIO_onProgress(W, c, p) ==
  updateTaskStatus(W, c, p.state, p.text, p.arts)

(* an io that spreads the task object its handler loaded instead of reading
   the store again *)
WebSocketOrchestrationIO_onProgress_stale(W, c, p) ==
  LET t == W.ch[c].tid
      cur == W.ch[c].task
      old == W.heap[t][cur]
      oldStep == currentStepOf(W, t, cur)
      W1 == [W EXCEPT !.cells[t] = Append(@, IF p.step # NoStep THEN p.step ELSE oldStep)]
      new == [old EXCEPT !.state = p.state, !.msg = p.text,
                         !.artifacts = IF p.arts[1] THEN p.arts[2] ELSE @,
                         !.history = Append(@, AgentMessage(p.text)),
                         !.meta = Len(W1.cells[t])]
      W2 == [W1 EXCEPT !.heap[t] = Append(@, new)]
  IN updateTask(W2, t, Len(W2.heap[t]))

(* WebSocketOrchestrationIO.onProgress: the new record has a metadata object
   of its own, the stored one overlaid with progress.metadata *)
WebSocketOrchestrationIO_onProgress(W, c, p) ==
  LET t == W.ch[c].tid
      cur == getTask(W, t)
  IN IF cur = 0 THEN W
     ELSE
       LET old == W.heap[t][cur]
           oldStep == currentStepOf(W, t, cur)
           W1 == [W EXCEPT !.cells[t] = Append(@, IF p.step # NoStep THEN p.step ELSE oldStep)]
           new == [old EXCEPT !.state = p.state, !.msg = p.text,
                              !.artifacts = IF p.arts[1] THEN p.arts[2] ELSE @,
                              !.history = Append(@, AgentMessage(p.text)),
                              !.meta = Len(W1.cells[t])]
           W2 == [W1 EXCEPT !.heap[t] = Append(@, new)]
       IN updateTask(W2, t, Len(W2.heap[t]))

(* io.onProgress of the chain: the processor's io for a processTask
   invocation, the connection's io for a feedback handler *)
onProgress(W, c, p) ==
  LET W1 == [W EXCEPT !.ch[c].prog = Append(@, p.state)]
  IN IF W.ch[c].kind = "proc" THEN TaskProcessorOrchestrationIO_onProgress(W1, c, p)
     ELSE WebSocketOrchestrationIO_onProgress(W1, c, p)

(* the error io.onProgress of the chain raises to the step engine, "" when
   it returns normally: the processor's io lets the error of
   updateTaskStatus through, the connection's io returns when getTask finds
   no task *)
onProgressError(W, c) ==
  IF W.ch[c].kind = "proc" THEN updateTaskStatusError(W, c) ELSE ""

(* ---- error propagation ---- *)

(* an exception leaving the step engine or validateTask: the catch of
   TaskProcessor.processTask stores FAILED with the error message and
   rethrows; the WebSocket handler answers -32001 and stores nothing *)
throwError(W, c, err) ==
  IF W.ch[c].kind = "proc"
    THEN [updateTaskStatus(W, c, FAILED, err, <<FALSE, <<>>>>)
            EXCEPT !.ch[c].err = err, !.ch[c].pc = "done_fail"]
    ELSE [W EXCEPT !.ch[c].err = err, !.ch[c].reply = "error-32001", !.ch[c].pc = "end"]

(* the step engine returned normally *)
returnOk(W, c) ==
  IF W.ch[c].kind = "proc"
    THEN [W EXCEPT !.ch[c].pc = "done_ok"]
    ELSE [W EXCEPT !.ch[c].reply = "ok", !.ch[c].pc = "end"]

(* ---- step engine ---- *)

(* stepGenerateSong up to the await of fetchAgentCard: the input is
   overrideInput, or else the last entry of task.history *)
stepGenerateSong(W, c, over) ==
  LET history == W.heap[W.ch[c].tid][W.ch[c].task].history
  IN IF ~over /\ Len(history) = 0
       THEN throwError(W, c, "No user input available for song generation.")
       ELSE [W EXCEPT !.ch[c].pc = "song_card",
                      !.ch[c].input = IF over THEN [src |-> "newInput", entry |-> NoEntry]
                                      ELSE [src |-> "lastEntry", entry |-> history[Len(history)]]]

(* stepGenerateScriptAndExtractEntities up to the await of fetchAgentCard:
   the input is overrideInput, or else task.history *)
stepGenerateScriptAndExtractEntities(W, c, over) ==
  [W EXCEPT !.ch[c].pc = "script_card",
            !.ch[c].input = [src |-> IF over THEN "newInput" ELSE "history", entry |-> NoEntry]]

(* a dispatcher whose default case returns without raising *)
continueOrchestration_silent(W, c, over) ==
  LET step == currentStepOf(W, W.ch[c].tid, W.ch[c].task)
      W1 == [W EXCEPT !.ch[c].target = step, !.ch[c].dispatched = TRUE]
  IN CASE step = GENERATE_SONG -> stepGenerateSong(W1, c, over)
       [] step = GENERATE_SCRIPT_AND_EXTRACT_ENTITIES -> stepGenerateScriptAndExtractEntities(W1, c, over)
       [] OTHER -> returnOk(W1, c)

continueOrchestration(W, c, over) ==
  LET step == currentStepOf(W, W.ch[c].tid, W.ch[c].task)
      W1 == [W EXCEPT !.ch[c].target = step, !.ch[c].dispatched = TRUE]
  IN CASE step = GENERATE_SONG -> stepGenerateSong(W1, c, over)
       [] step = GENERATE_SCRIPT_AND_EXTRACT_ENTITIES -> stepGenerateScriptAndExtractEntities(W1, c, over)
       [] OTHER -> throwError(W1, c, "Unknown orchestration step")

(* startOrchestration up to the await of taskStore.updateTask *)
startOrchestration(W, c) ==
  LET t == W.ch[c].tid
      task == W.ch[c].task
      W1 == [W EXCEPT !.cells[t] = Append(@, GENERATE_SONG)]
      W2 == [W1 EXCEPT !.heap[t][task].meta = Len(W1.cells[t])]
  IN [updateTask(W2, t, task) EXCEPT !.ch[c].pc = "started"]

(* ---- TaskProcessor ---- *)

(* validateTask: the error it throws, "" when the task is valid.  message is
   "none" when task.message is absent, "blank" when no part is a non-empty text *)
validateTask(W, c) ==
  LET message == W.heap[W.ch[c].tid][W.ch[c].task].message
  IN CASE message = "none" -> "Task message is empty or invalid"
       [] message = "blank" -> "Task must contain a non-empty text prompt"
       [] OTHER -> ""

(* processTask up to its first await *)
processTask(W, c) ==
  IF validateTask(W, c) = ""
    THEN startOrchestration(W, c)
    ELSE throwError(W, c, validateTask(W, c))

(* ---- TaskQueue ---- *)

(* a queue that does not count the tasks being processed *)
availableSlots_uncounted(W) == maxConcurrent

availableSlots(W) == maxConcurrent - Cardinality(W.processing)

(* a queue that takes the newest entry of the backlog (pop for shift) *)
admitOne_newest(W) ==
  LET c == W.queue[Len(W.queue)]
      W1 == [W EXCEPT !.queue = SubSeq(@, 1, Len(@) - 1),
                      !.processing = @ \cup {W.ch[c].tid},
                      !.admitted = Append(@, c)]
  IN processTask(W1, c)

(* one iteration of the loop of processNextTasks *)
admitOne(W) ==
  LET c == Head(W.queue)
      W1 == [W EXCEPT !.queue = Tail(@),
                      !.processing = @ \cup {W.ch[c].tid},
                      !.admitted = Append(@, c)]
  IN processTask(W1, c)

RECURSIVE processLoop(_, _, _)
processLoop(W, i, slots) ==
  IF i < slots /\ Len(W.queue) > 0 THEN processLoop(admitOne(W), i + 1, slots) ELSE W

processNextTasks(W) == processLoop(W, 0, availableSlots(W))

(* an enqueueTask that awaits the processor of the task it admitted: its
   promise is not settled when the admission loop ends *)
enqueueTask_awaitingProcessor(W, c) ==
  processNextTasks([W EXCEPT !.queue = Append(@, c), !.enqueued = Append(@, c),
                             !.ch[c].pc = "queued"])

(* enqueueTask: push, then await processNextTasks, whose loop starts the
   processors without awaiting them: the call returns when the loop ends *)
enqueueTask(W, c) ==
  [processNextTasks([W EXCEPT !.queue = Append(@, c), !.enqueued = Append(@, c),
                              !.ch[c].pc = "queued"])
     EXCEPT !.ch[c].enqReturned = TRUE]

(* ---- feedback (orchestrator.ts handleUserFeedback) ---- *)

(* the step handleUserFeedback assigns on accept *)
acceptTarget(step) ==
  CASE step = GENERATE_SONG -> GENERATE_SCRIPT_AND_EXTRACT_ENTITIES
    [] step = GENERATE_SCRIPT_AND_EXTRACT_ENTITIES -> GENERATE_IMAGES
    [] step = GENERATE_IMAGES -> GENERATE_VIDEO_CLIPS
    [] step = GENERATE_VIDEO_CLIPS -> COMPILE_AND_UPLOAD_VIDEO
    [] step = COMPILE_AND_UPLOAD_VIDEO -> STEP_COMPLETED
    [] OTHER -> step

FeedbackSteps == {GENERATE_SONG, GENERATE_SCRIPT_AND_EXTRACT_ENTITIES, GENERATE_IMAGES,
                  GENERATE_VIDEO_CLIPS, COMPILE_AND_UPLOAD_VIDEO}
Actions == {"accept", "retry", "modify", "other"}

(* the artifacts arrays a successful generation call returns *)
SongResults == {<<"song">>}
ScriptResults == {<<"script">>}

(* handleUserFeedback up to its first await: the first switch awaits
   fetchAgentCard for the steps that have an agent and touches no task state *)
handleUserFeedback(W, c) == [W EXCEPT !.ch[c].pc = "fb_llm"]

(* the steps for which the first switch of handleUserFeedback fetches a card *)
CardSteps == {GENERATE_SONG, GENERATE_SCRIPT_AND_EXTRACT_ENTITIES, GENERATE_IMAGES,
              GENERATE_VIDEO_CLIPS}

(* handleUserFeedback after interpretUserFeedbackWithLLM returned: the second switch *)
handleUserFeedbackBranch(W, c, action, newInput) ==
  LET t == W.ch[c].tid
      task == W.ch[c].task
      step == currentStepOf(W, t, task)
      W0 == [W EXCEPT !.ch[c].action = action, !.ch[c].at = step]
  IN IF step \in FeedbackSteps
       THEN CASE action = "accept" ->
                   continueOrchestration(
                     [W0 EXCEPT !.cells[t][W.heap[t][task].meta] = acceptTarget(step)], c, FALSE)
              [] action \in {"retry", "modify"} ->
                   continueOrchestration([W0 EXCEPT !.ch[c].newInput = newInput], c, newInput)
              [] OTHER -> returnOk(W0, c)
       ELSE continueOrchestration(W0, c, FALSE)

(* a handler that calls the interpreter whatever the history holds *)
handleUserFeedbackInterpret_unchecked(W, c, ok, action, newInput) ==
  LET W1 == [W EXCEPT !.ch[c].interpreted = TRUE]
  IN IF ok THEN handleUserFeedbackBranch(W1, c, action, newInput)
           ELSE throwError(W1, c, "collaborator failed")

(* handleUserFeedback from the filter of task.history to the second switch:
   it throws when the history has no message of role 'user', and otherwise
   calls interpretUserFeedbackWithLLM, which fails (ok FALSE) or returns
   the action and whether it carries a newInput *)
handleUserFeedbackInterpret(W, c, ok, action, newInput) ==
  IF userComment(W.heap[W.ch[c].tid][W.ch[c].task].history) = NoEntry
    THEN throwError(W, c, "No user message found in history for LLM feedback interpretation.")
    ELSE LET W1 == [W EXCEPT !.ch[c].interpreted = TRUE]
         IN IF ok THEN handleUserFeedbackBranch(W1, c, action, newInput)
                  ELSE throwError(W1, c, "collaborator failed")

(* the step whose output the stored record of t, when INPUT_REQUIRED, is waiting on *)
parkedStep(W, t) ==
  IF W.store[t] = 0 THEN NoStep
  ELSE LET rec == W.heap[t][W.store[t]]
       IN IF rec.state # INPUT_REQUIRED THEN NoStep
          ELSE IF rec.msg = "The song has been generated." THEN GENERATE_SONG
          ELSE GENERATE_SCRIPT_AND_EXTRACT_ENTITIES

(* ---- actions ---- *)

Init ==
  /\ heap = [t \in TaskIds |-> <<>>]
  /\ cells = [t \in TaskIds |-> <<>>]
  /\ store = [t \in TaskIds |-> 0]
  /\ listeners = {0}
  /\ regAt = [L \in Listeners |-> [t \in TaskIds |-> 0]]
  /\ queue = <<>>
  /\ processing = {}
  /\ ch = <<>>
  /\ delivered = [L \in Listeners |-> [t \in TaskIds |-> <<>>]]
  /\ applied = [t \in TaskIds |-> <<>>]
  /\ enqueued = <<>>
  /\ admitted = <<>>
  /\ removed = {}
  /\ calls = <<>>
  /\ requests = <<>>
  /\ retry = <<>>

(* A2AController.sendTask up to the await of createTask *)
SendTask(maxT) ==
  \E m \in {"text", "blank"} :
    /\ NumTasks(World) < maxT
    /\ LET t == NumTasks(World) + 1
           obj == [state |-> SUBMITTED, msg |-> "", history |-> <<>>,
                   artifacts |-> <<>>, meta |-> 0, message |-> m]
           W1 == [World EXCEPT !.heap[t] = <<obj>>]
           W2 == createTask(W1, t, 1)
       IN Commit([W2 EXCEPT !.ch = (t :> NewChain("proc", t, 1, "created")) @@ @])

(* a2aController.sendTaskSubscribe up to the end of the handler: the task is
   created; in webhook mode the handler answers and returns, and the task is
   never given to the queue; in SSE mode the task is enqueued *)
SendTaskSubscribe(maxT) ==
  \E mode \in {"webhook", "sse"} :
    /\ NumTasks(World) < maxT
    /\ LET t == NumTasks(World) + 1
           obj == [state |-> SUBMITTED, msg |-> "", history |-> <<>>,
                   artifacts |-> <<>>, meta |-> 0, message |-> "text"]
           W1 == [World EXCEPT !.heap[t] = <<obj>>]
           W2 == createTask(W1, t, 1)
           pc == IF mode = "webhook" THEN "subscribed" ELSE "created"
       IN Commit([W2 EXCEPT !.ch = (t :> [NewChain("proc", t, 1, pc) EXCEPT !.mode = mode]) @@ @])

(* the currentStep a client can put in params.metadata of tasks/send, taken
   among the values the program itself never writes: the two terminal
   values of the enumeration, a string that is no value of it, and no
   currentStep at all *)
ClientSteps == {STEP_COMPLETED, STEP_FAILED, "bogus", NoStep}

(* a2aController.sendTask with params.metadata: the task is created with the
   metadata object the client sent *)
SendTaskMetadata(maxT) ==
  \E step \in ClientSteps :
    /\ NumTasks(World) < maxT
    /\ LET t == NumTasks(World) + 1
           obj == [state |-> SUBMITTED, msg |-> "", history |-> <<>>,
                   artifacts |-> <<>>, meta |-> IF step = NoStep THEN 0 ELSE 1,
                   message |-> "text"]
           W1 == [World EXCEPT !.heap[t] = <<obj>>,
                               !.cells[t] = IF step = NoStep THEN <<>> ELSE <<step>>]
           W2 == createTask(W1, t, 1)
       IN Commit([W2 EXCEPT !.ch = (t :> NewChain("proc", t, 1, "created")) @@ @])

(* a new-task case that stores the task first and registers the listener
   of the connection afterwards *)
WsNewTask_listenerAfterCreate(maxT) ==
  /\ NumTasks(World) < maxT
  /\ LET t == NumTasks(World) + 1
         obj == [state |-> SUBMITTED, msg |-> "", history |-> <<UserMessage>>,
                 artifacts |-> <<>>, meta |-> 1, message |-> "none"]
         W1 == [World EXCEPT !.heap[t] = <<obj>>, !.cells[t] = <<NoStep>>]
         W2 == addStatusListener(createTask(W1, t, 1), t)
     IN Commit([W2 EXCEPT !.ch = (t :> NewChain("proc", t, 1, "created")) @@ @])

(* websocketService, tasks/send without taskId, up to the await of createTask *)
WsNewTask(maxT) ==
  /\ NumTasks(World) < maxT
  /\ LET t == NumTasks(World) + 1
         W0 == addStatusListener(World, t)
         obj == [state |-> SUBMITTED, msg |-> "", history |-> <<UserMessage>>,
                 artifacts |-> <<>>, meta |-> 1, message |-> "none"]
         W1 == [W0 EXCEPT !.heap[t] = <<obj>>, !.cells[t] = <<NoStep>>]
         W2 == createTask(W1, t, 1)
     IN Commit([W2 EXCEPT !.ch = (t :> NewChain("proc", t, 1, "created")) @@ @])

(* the WebSocket connection that created task L closes: its close handler
   removes the status listener it registered *)
WsClose(L) ==
  /\ L \in listeners
  /\ L # 0
  /\ Commit(removeStatusListener(World, L))

(* taskQueue.enqueueTask(task) of either transport *)
EnqueueTask(c) ==
  /\ ch[c].pc = "created"
  /\ LET W1 == enqueueTask(World, c)
     IN Commit([W1 EXCEPT !.ch[c].waited = (W1.ch[c].pc = "queued")])

(* startOrchestration after its updateTask: continueOrchestration(task, io) *)
Started(c) ==
  /\ ch[c].pc = "started"
  /\ Commit(continueOrchestration(World, c, FALSE))

(* fetchAgentCard of the song agent settles: the WORKING progress is stored
   and generateSong is called *)
SongCard(c) ==
  /\ ch[c].pc = "song_card"
  /\ \E ok \in BOOLEAN :
       Commit(IF ok
                THEN [onProgress(World, c, Progress(WORKING, "Generating song...", <<TRUE, <<>>>>, NoStep))
                        EXCEPT !.ch[c].pc = "song_gen", !.ch[c].gen = @ + 1]
                ELSE throwError(World, c, "collaborator failed"))

(* a song step that returns after generateSong without a last progress *)
SongGenerated_silentReturn(c) ==
  /\ ch[c].pc = "song_gen"
  /\ \E ok \in BOOLEAN, arts \in SongResults :
       Commit(IF ok
                THEN returnOk(World, c)
                ELSE throwError(World, c, "collaborator failed"))

(* generateSong settles: the INPUT_REQUIRED progress is stored with the
   artifacts of the song and the step returns *)
SongGenerated(c) ==
  /\ ch[c].pc = "song_gen"
  /\ \E ok \in BOOLEAN, arts \in SongResults :
       Commit(IF ok
                THEN returnOk(onProgress(World, c, Progress(INPUT_REQUIRED, "The song has been generated.",
                                                            <<TRUE, arts>>, NoStep)), c)
                ELSE throwError(World, c, "collaborator failed"))

(* fetchAgentCard of the script agent settles: the first WORKING progress is
   stored and generateScript is called *)
ScriptCard(c) ==
  /\ ch[c].pc = "script_card"
  /\ \E ok \in BOOLEAN :
       Commit(IF ok
                THEN [onProgress(World, c, Progress(WORKING, "Generating script...", <<TRUE, <<>>>>, NoStep))
                        EXCEPT !.ch[c].pc = "script_gen", !.ch[c].gen = @ + 1]
                ELSE throwError(World, c, "collaborator failed"))

(* generateScript settles: the second WORKING progress is stored with the
   script artifacts and the three extractions are started *)
ScriptGenerated(c) ==
  /\ ch[c].pc = "script_gen"
  /\ \E ok \in BOOLEAN, arts \in ScriptResults :
       Commit(IF ok
                THEN [onProgress(World, c, Progress(WORKING, "Script generated. Extracting...",
                                                    <<TRUE, arts>>, NoStep))
                        EXCEPT !.ch[c].pc = "script_ext", !.ch[c].res = arts,
                               !.ch[c].ext.started = Extractions]
                ELSE throwError(World, c, "collaborator failed"))

(* the continuation of the script step after Promise.all resolved: the step
   assigns task.metadata and task.artifacts of its own task object, stores
   the INPUT_REQUIRED progress and returns *)
scriptStepFinish(W, c) ==
  LET t == W.ch[c].tid
      task == W.ch[c].task
      W1 == [W EXCEPT !.cells[t] = Append(@, GENERATE_IMAGES)]
      W2 == [W1 EXCEPT !.heap[t][task].meta = Len(W1.cells[t]),
                       !.heap[t][task].artifacts = @ \o W.ch[c].res]
  IN returnOk(onProgress(W2, c, Progress(INPUT_REQUIRED,
                                         "Extracted. Ready to generate images.",
                                         <<TRUE, W.ch[c].res>>, GENERATE_IMAGES)), c)

(* a script step that goes on as soon as one extraction has completed
   (Promise.race for Promise.all) *)
ScriptExtracted_firstWins(c) ==
  /\ ch[c].pc = "script_ext"
  /\ ch[c].ext.done < ch[c].ext.started
  /\ \E ok \in BOOLEAN :
       Commit(IF ok THEN scriptStepFinish([World EXCEPT !.ch[c].ext.done = @ + 1], c)
                    ELSE throwError([World EXCEPT !.ch[c].ext.failed = TRUE], c,
                                    "collaborator failed"))

(* one of the three extractions settles.  Promise.all rejects with the first
   rejection, and the step throws; it resolves when the last of the three
   has resolved, and the step goes on *)
ScriptExtracted(c) ==
  /\ ch[c].pc = "script_ext"
  /\ ch[c].ext.done < ch[c].ext.started
  /\ \E ok \in BOOLEAN :
       Commit(IF ~ok THEN throwError([World EXCEPT !.ch[c].ext.failed = TRUE], c,
                                     "collaborator failed")
              ELSE IF ch[c].ext.done + 1 = Extractions
                     THEN scriptStepFinish([World EXCEPT !.ch[c].ext.done = @ + 1], c)
                     ELSE [World EXCEPT !.ch[c].ext.done = @ + 1])

(* a finally callback that frees the slot and does not look at the backlog *)
Settle_noDrain(c) ==
  /\ ch[c].pc \in {"done_ok", "done_fail"}
  /\ Commit([World EXCEPT !.processing = @ \ {ch[c].tid},
                          !.ch[c].pc = IF ch[c].pc = "done_ok" THEN "settled_ok" ELSE "settled_fail"])

(* the finally callback of TaskQueue.processNextTasks *)
Settle(c) ==
  /\ ch[c].pc \in {"done_ok", "done_fail"}
  /\ Commit(processNextTasks(
       [World EXCEPT !.processing = @ \ {ch[c].tid},
                     !.ch[c].pc = IF ch[c].pc = "done_ok" THEN "settled_ok" ELSE "settled_fail"]))

(* the taskId of a feedback message: a task of the store, or one unknown id *)
FeedbackTargets == {t \in TaskIds : t <= NumTasks(World) + 1}

(* a feedback handler without the not-found answer: reading task.history of
   the missing task throws, and the handler's catch answers -32001 *)
FeedbackMessage_noNotFound(maxF, maxInFlight) ==
  \E t \in FeedbackTargets :
    /\ NumFeedback(World) < maxF
    /\ Cardinality({c \in DOMAIN ch : IsFb(c) /\ ch[c].pc # "end"}) < maxInFlight
    /\ LET o == getTask(World, t)
           c == FbBase + NumFeedback(World) + 1
           c0 == NewChain("fb", t, o, "fb_llm")
           c1 == [c0 EXCEPT !.atArrival = IF o = 0 THEN "absent" ELSE heap[t][o].state,
                            !.seen = IF o = 0 THEN <<>> ELSE <<heap[t][o], currentStepOf(World, t, o)>>,
                            !.quiet = (t \in DOMAIN ch /\ ch[t].pc \in {"settled_ok", "settled_fail"}),
                            !.parked = parkedStep(World, t)]
           W0 == [World EXCEPT !.ch = (c :> c1) @@ @]
       IN IF o = 0
            THEN Commit([W0 EXCEPT !.ch[c].reply = "error-32001", !.ch[c].pc = "end"])
            ELSE \E role \in Roles :
                   LET W1 == [W0 EXCEPT !.heap[t][o].history = Append(@, ClientMessage(role, c))]
                   IN Commit(handleUserFeedback(updateTask(W1, t, o), c))

(* websocketService, tasks/send with taskId and contextId: not found, or the
   message is appended to the history of the stored object, the object is
   stored again and handleUserFeedback starts *)
FeedbackMessage(maxF, maxInFlight) ==
  \E t \in FeedbackTargets :
    /\ NumFeedback(World) < maxF
    /\ Cardinality({c \in DOMAIN ch : IsFb(c) /\ ch[c].pc # "end"}) < maxInFlight
    /\ LET o == getTask(World, t)
           c == FbBase + NumFeedback(World) + 1
           c0 == NewChain("fb", t, o, "fb_llm")
           c1 == [c0 EXCEPT !.atArrival = IF o = 0 THEN "absent" ELSE heap[t][o].state,
                            !.seen = IF o = 0 THEN <<>> ELSE <<heap[t][o], currentStepOf(World, t, o)>>,
                            !.quiet = (t \in DOMAIN ch /\ ch[t].pc \in {"settled_ok", "settled_fail"}),
                            !.parked = parkedStep(World, t)]
           W0 == [World EXCEPT !.ch = (c :> c1) @@ @]
       IN IF o = 0
            THEN Commit([W0 EXCEPT !.ch[c].reply = "error-32000", !.ch[c].pc = "end"])
            ELSE \E role \in Roles :
                   LET W1 == [W0 EXCEPT !.heap[t][o].history = Append(@, ClientMessage(role, c))]
                   IN Commit(handleUserFeedback(updateTask(W1, t, o), c))

(* fetchAgentCard, when the step has a card to fetch, and
   interpretUserFeedbackWithLLM settle.  Between the two awaits the handler
   only reads task.history, which no one shortens *)
FeedbackInterpreted(c) ==
  /\ ch[c].pc = "fb_llm"
  /\ \E card \in (IF currentStepOf(World, ch[c].tid, ch[c].task) \in CardSteps
                     THEN BOOLEAN ELSE {TRUE}),
        ok \in BOOLEAN, action \in Actions, newInput \in BOOLEAN :
       Commit(IF card THEN handleUserFeedbackInterpret(World, c, ok, action, newInput)
                      ELSE throwError(World, c, "collaborator failed"))

ChainStep(c) ==
  \/ EnqueueTask(c)
  \/ Started(c)
  \/ SongCard(c)
  \/ SongGenerated(c)
  \/ ScriptCard(c)
  \/ ScriptGenerated(c)
  \/ ScriptExtracted(c)
  \/ Settle(c)
  \/ FeedbackInterpreted(c)

QueueStep(c) ==
  \/ EnqueueTask(c)
  \/ Started(c)
  \/ Settle(c)

(* the whole system: both transports, the queue, the processor, the step
   engine and the feedback handler, which overlaps the processor *)
Next ==
  \/ SendTask(MaxSysTasks)
  \/ WsNewTask(MaxSysTasks)
  \/ FeedbackMessage(MaxFeedback, MaxInFlight)
  \/ \E c \in DOMAIN ch : ChainStep(c)

Spec == Init /\ [][Next]_vars

(* the queue under load: tasks sent over HTTP, no feedback arriving *)
NextQueue ==
  \/ SendTask(MaxTasks)
  \/ \E c \in DOMAIN ch : QueueStep(c)

SpecQueue == Init /\ [][NextQueue]_vars

(* the whole system with a longer conversation: the client sends a second
   feedback message after the first was answered *)
NextSeq ==
  \/ SendTask(MaxSysTasks)
  \/ WsNewTask(MaxSysTasks)
  \/ FeedbackMessage(MaxSeqFeedback, MaxInFlight)
  \/ \E c \in DOMAIN ch : ChainStep(c)

SpecSeq == Init /\ [][NextSeq]_vars

(* the whole system with tasks sent by tasks/sendSubscribe *)
NextSub ==
  \/ SendTaskSubscribe(MaxSysTasks)
  \/ FeedbackMessage(MaxFeedback, MaxInFlight)
  \/ \E c \in DOMAIN ch : ChainStep(c)

SpecSub == Init /\ [][NextSub]_vars

(* clients that all come over WebSocket and keep their connections open.
   The tasks they create have no message field, so that processTask never
   gets past validateTask, and their feedback finds no currentStep: the
   steps below are all that such a system takes *)
NextSock ==
  \/ WsNewTask(MaxSockTasks)
  \/ FeedbackMessage(MaxFeedback, MaxInFlight)
  \/ \E c \in DOMAIN ch : EnqueueTask(c) \/ Settle(c) \/ FeedbackInterpreted(c)

SpecSock == Init /\ [][NextSock]_vars

(* ---- withRetry (utils/retry.ts) ---- *)

(* the values callers pass for retries and delayMs *)
RetriesArgs == 0..MaxRetriesArg
Delays == {0, 2000}

(* the head of the for loop: fn is invoked when i < retries, and otherwise
   the loop is left and lastError is thrown.  The k-th invocation of fn
   returns the value k or throws the error k; lastError 0 is undefined *)
withRetryLoop(rec) ==
  IF rec.i < rec.retries
    THEN [rec EXCEPT !.pc = "call", !.log = Append(@, [ev |-> "call", ms |-> 0])]
    ELSE [rec EXCEPT !.pc = "rejected", !.error = rec.lastError]

(* withRetry(fn, retries, delayMs) up to its first await *)
withRetry(retries, delayMs) ==
  withRetryLoop([retries |-> retries, delayMs |-> delayMs, i |-> 0, pc |-> "start",
                 lastError |-> 0, error |-> 0, result |-> 0, log |-> <<>>])

(* a loop that sleeps after every failed invocation, the last one too *)
withRetrySettled_alwaysSleeps(rec, ok) ==
  IF ok
    THEN [rec EXCEPT !.pc = "resolved", !.result = rec.i + 1]
    ELSE [rec EXCEPT !.lastError = rec.i + 1, !.pc = "sleep",
                     !.log = Append(@, [ev |-> "sleep", ms |-> rec.delayMs])]

(* the awaited fn() settles: its value is returned, or its error is kept in
   lastError and, unless this was the last round, the delay is awaited *)
withRetrySettled(rec, ok) ==
  IF ok
    THEN [rec EXCEPT !.pc = "resolved", !.result = rec.i + 1]
    ELSE LET caught == [rec EXCEPT !.lastError = rec.i + 1]
         IN IF rec.i < rec.retries - 1
              THEN [caught EXCEPT !.pc = "sleep",
                                  !.log = Append(@, [ev |-> "sleep", ms |-> rec.delayMs])]
              ELSE withRetryLoop([caught EXCEPT !.i = @ + 1])

(* the timer of the delay fires: i++ and the loop goes round *)
withRetryTimer(rec) == withRetryLoop([rec EXCEPT !.i = @ + 1])

(* a caller invokes withRetry *)
RetryStart(maxRuns) ==
  /\ Len(retry) < maxRuns
  /\ \E retries \in RetriesArgs, delayMs \in Delays :
       Commit([World EXCEPT !.retry = Append(@, withRetry(retries, delayMs))])

RetryAttempt(r) ==
  /\ retry[r].pc = "call"
  /\ \E ok \in BOOLEAN :
       Commit([World EXCEPT !.retry[r] = withRetrySettled(@, ok)])

RetryTimer(r) ==
  /\ retry[r].pc = "sleep"
  /\ Commit([World EXCEPT !.retry[r] = withRetryTimer(@)])

NextRetry ==
  \/ RetryStart(MaxRetryRuns)
  \/ \E r \in DOMAIN retry : RetryAttempt(r)
  \/ \E r \in DOMAIN retry : RetryTimer(r)

SpecRetry == Init /\ [][NextRetry]_vars

(* ---- the TaskStore on its own, called by any client of the class ---- *)

StoreTaskIds == {1, 2}
StoreListeners == {1}
(* the listeners that reject during one notification: none, or one of the
   registered ones *)
FailingSets == {{}} \cup {{L} : L \in listeners}

(* the record of one call: the operation, the id, whether the id was stored
   before, the listeners that rejected and the error the call ended with *)
StoreCall(op, t, failing) ==
  [op |-> op, tid |-> t, present |-> store[t] # 0, failing |-> failing,
   err |-> notifyOutcome(World, failing)]

(* taskStore.createTask(task) with a new Task object *)
StoreCreateTask(maxCalls) ==
  \E t \in StoreTaskIds, failing \in FailingSets :
    /\ Len(calls) < maxCalls
    /\ LET obj == [state |-> SUBMITTED, msg |-> "", history |-> <<>>,
                   artifacts |-> <<>>, meta |-> 0, message |-> "text"]
           W1 == [World EXCEPT !.heap[t] = Append(@, obj)]
           W2 == createTask(W1, t, Len(W1.heap[t]))
       IN Commit([W2 EXCEPT !.calls = Append(@, StoreCall("createTask", t, failing))])

(* taskStore.updateTask(task) with a Task object of any id: a spread of the
   stored record with a new state, or an object whose id is not stored *)
StoreUpdateTask(maxCalls) ==
  \E t \in StoreTaskIds, state \in {WORKING, COMPLETED}, failing \in FailingSets :
    /\ Len(calls) < maxCalls
    /\ LET fresh == [state |-> state, msg |-> "", history |-> <<>>,
                     artifacts |-> <<>>, meta |-> 0, message |-> "text"]
           obj == IF store[t] # 0 THEN [heap[t][store[t]] EXCEPT !.state = state] ELSE fresh
           W1 == [World EXCEPT !.heap[t] = Append(@, obj)]
           W2 == updateTask(W1, t, Len(W1.heap[t]))
       IN Commit([W2 EXCEPT !.calls = Append(@, StoreCall("updateTask", t, failing))])

(* taskStore.addStatusListener(listener) *)
StoreAddStatusListener ==
  \E L \in StoreListeners :
    /\ L \notin listeners
    /\ Commit(addStatusListener(World, L))

NextStore ==
  \/ StoreCreateTask(MaxStoreCalls)
  \/ StoreUpdateTask(MaxStoreCalls)
  \/ StoreAddStatusListener

SpecStore == Init /\ [][NextStore]_vars

(* the whole system with WebSocket connections that close *)
NextWs ==
  \/ SendTask(MaxSysTasks)
  \/ WsNewTask(MaxSysTasks)
  \/ \E L \in TaskIds : WsClose(L)
  \/ FeedbackMessage(MaxFeedback, MaxInFlight)
  \/ \E c \in DOMAIN ch : ChainStep(c)

SpecWs == Init /\ [][NextWs]_vars

(* ---- the OrchestrationIO implementations on their own ---- *)

NumIoCalls == Cardinality({c \in DOMAIN ch : c < 0})

(* a step calls io.onProgress(progress) on the io made for task t, which is
   stored or not: chain 0 - k is the k-th such call *)
IoProgress(maxCalls) ==
  \E kind \in {"proc", "fb"}, t \in StoreTaskIds, state \in {WORKING, INPUT_REQUIRED} :
    /\ NumIoCalls < maxCalls
    /\ LET c == 0 - (NumIoCalls + 1)
           c0 == [NewChain(kind, t, getTask(World, t), "io")
                    EXCEPT !.atArrival = IF store[t] = 0 THEN "absent" ELSE heap[t][store[t]].state]
           W0 == [World EXCEPT !.ch = (c :> c0) @@ @]
           err == onProgressError(W0, c)
           W1 == onProgress(W0, c, Progress(state, "progress", <<FALSE, <<>>>>, NoStep))
       IN Commit(IF err # ""
                   THEN [W0 EXCEPT !.ch[c].err = err, !.ch[c].pc = "io_failed"]
                   ELSE [W1 EXCEPT !.ch[c].pc = "io_returned"])

NextIo ==
  \/ StoreCreateTask(MaxStoreCalls)
  \/ IoProgress(MaxIoCalls)

SpecIo == Init /\ [][NextIo]_vars

(* ---- the validation of params.message at the transport bindings ---- *)

(* the shapes of params.message: a non-empty text, a text of white space
   only, an empty text, a first part without text, no message at all *)
MessageKinds == {"text", "blank", "empty", "notext", "missing"}

(* the check of a2aController.sendTask: !message || !message.parts ||
   !message.parts[0] || !message.parts[0].text *)
sendTaskRejects(m) == m \in {"empty", "notext", "missing"}

(* a2aController.sendTask with a message of kind m: answered 400 with error
   -32602, or the task is created *)
HttpSend(maxReq) ==
  \E m \in MessageKinds :
    /\ Len(requests) < maxReq
    /\ NumTasks(World) < MaxTasks
    /\ IF sendTaskRejects(m)
         THEN Commit([World EXCEPT !.requests =
                        Append(@, [via |-> "http", message |-> m, reply |-> "error-32602", tid |-> 0])])
         ELSE LET t == NumTasks(World) + 1
                  obj == [state |-> SUBMITTED, msg |-> "", history |-> <<>>,
                          artifacts |-> <<>>, meta |-> 0, message |-> IF m = "blank" THEN "blank" ELSE "text"]
                  W1 == [World EXCEPT !.heap[t] = <<obj>>]
                  W2 == createTask(W1, t, 1)
              IN Commit([W2 EXCEPT !.ch = (t :> NewChain("proc", t, 1, "created")) @@ @,
                                   !.requests = Append(@, [via |-> "http", message |-> m,
                                                            reply |-> "task", tid |-> t])])

(* websocketService, tasks/send without taskId, with a message of kind m:
   params.message is not examined; it becomes the only entry of the history
   of the task that is created *)
WsSend(maxReq) ==
  \E m \in MessageKinds :
    /\ Len(requests) < maxReq
    /\ NumTasks(World) < MaxTasks
    /\ LET t == NumTasks(World) + 1
           W0 == addStatusListener(World, t)
           entry == IF m = "text" THEN UserMessage ELSE [role |-> "user", text |-> ""]
           obj == [state |-> SUBMITTED, msg |-> "", history |-> <<entry>>,
                   artifacts |-> <<>>, meta |-> 1, message |-> "none"]
           W1 == [W0 EXCEPT !.heap[t] = <<obj>>, !.cells[t] = <<NoStep>>]
           W2 == createTask(W1, t, 1)
       IN Commit([W2 EXCEPT !.ch = (t :> NewChain("proc", t, 1, "created")) @@ @,
                            !.requests = Append(@, [via |-> "ws", message |-> m,
                                                     reply |-> "none", tid |-> t])])

NextIn ==
  \/ HttpSend(MaxRequests)
  \/ WsSend(MaxRequests)
  \/ \E c \in DOMAIN ch : QueueStep(c)

SpecIn == Init /\ [][NextIn]_vars

(* the whole system with tasks whose metadata the client chose *)
NextMeta ==
  \/ SendTaskMetadata(MaxSysTasks)
  \/ FeedbackMessage(MaxFeedback, MaxInFlight)
  \/ \E c \in DOMAIN ch : ChainStep(c)

SpecMeta == Init /\ [][NextMeta]_vars

(* the processTask invocation of task t waits for a continuation that the
   event loop will run: Started(t) or Settle(t) is enabled *)
Busy(t) == t \in DOMAIN ch /\ ch[t].pc \in {"started", "done_ok", "done_fail"}

(* the queue under load with the scheduling the event loop gives: a
   continuation that is ready is eventually run, so every started
   invocation eventually settles.  Busy(t) is the enabling condition of
   Started(t) \/ Settle(t) and each of them ends or advances it, so the
   condition below is weak fairness of that continuation. *)
NextQueueLive ==
  \/ SendTask(MaxLiveTasks)
  \/ \E c \in DOMAIN ch : QueueStep(c)

SpecQueueLive ==
  /\ Init
  /\ [][NextQueueLive]_vars
  /\ \A t \in TaskIds : []<>(~Busy(t))

(* a caller hands a task that it enqueued before to taskQueue.enqueueTask
   again, with the same Task object; chain -t is the processTask invocation
   this second entry leads to *)
ReEnqueue(t) ==
  /\ t \in DOMAIN ch
  /\ (0 - t) \notin DOMAIN ch
  /\ ch[t].pc # "created"
  /\ LET c == 0 - t
         W1 == [World EXCEPT !.ch = (c :> NewChain("proc", t, ch[t].task, "created")) @@ @]
         W2 == enqueueTask(W1, c)
     IN Commit([W2 EXCEPT !.ch[c].waited = (W2.ch[c].pc = "queued")])

(* the queue used by a caller that may enqueue a task twice *)
NextQueueDup ==
  \/ SendTask(MaxDupTasks)
  \/ \E t \in TaskIds : ReEnqueue(t)
  \/ \E c \in DOMAIN ch : QueueStep(c)

SpecQueueDup == Init /\ [][NextQueueDup]_vars

(* ======================= properties ======================= *)

Procs == {c \in DOMAIN ch : ~IsFb(c)}
Fbs == {c \in DOMAIN ch : IsFb(c)}
StoredRec(t) == heap[t][store[t]]
StoredStep(t) == currentStepOf(World, t, store[t])
IsPrefix(a, b) == Len(a) <= Len(b) /\ SubSeq(b, 1, Len(a)) = a

(* processTask invocations that have started and have not settled *)
Running == {c \in Procs : ch[c].pc \notin {"created", "queued", "settled_ok", "settled_fail"}}
(* the number of processTask invocations started for task t *)
Attempts(t) == Cardinality({i \in DOMAIN admitted : ch[admitted[i]].tid = t})

(* the fixed order of the steps *)
StepOrder == <<GENERATE_SONG, GENERATE_SCRIPT_AND_EXTRACT_ENTITIES, GENERATE_IMAGES,
               GENERATE_VIDEO_CLIPS, COMPILE_AND_UPLOAD_VIDEO, STEP_COMPLETED>>
StepAfter(S) == StepOrder[(CHOOSE i \in 1..5 : StepOrder[i] = S) + 1]

(* C1: with maxConcurrent = K and tasks of distinct ids, the number of
   processTask invocations started and not yet settled never exceeds K. *)
C1_ConcurrencyBound == Cardinality(Running) <= maxConcurrent

(* the cap is reached while another task waits in the backlog *)
C1_Witness == Cardinality(Running) = maxConcurrent /\ Len(queue) > 0

(* C2: for a task parked in INPUT_REQUIRED after step S, feedback interpreted
   as accept sets currentStep to the step right after S in the fixed order
   and runs that step; no step is skipped. *)
C2_AcceptAdvancesOneStep ==
  \A c \in Fbs :
    (ch[c].quiet /\ ch[c].parked # NoStep /\ ch[c].action = "accept") =>
      /\ ch[c].target = StepAfter(ch[c].parked)
      /\ ch[c].err # "Unknown orchestration step"

(* C3: for a task parked in INPUT_REQUIRED after step S, feedback interpreted
   as retry leaves currentStep = S and calls S's generation collaborator
   exactly once (no collaborator failing). *)
C3_RetryRerunsSameStep ==
  \A c \in Fbs :
    (ch[c].quiet /\ ch[c].parked # NoStep /\ ch[c].action = "retry"
       /\ ch[c].pc = "end" /\ ch[c].err # "collaborator failed") =>
      /\ ch[c].target = ch[c].parked
      /\ StoredStep(ch[c].tid) = ch[c].parked
      /\ ch[c].gen = 1

(* C4: feedback addressed to a task whose stored state is COMPLETED, FAILED or
   CANCELLED is answered with an error, leaves the stored record unchanged
   and runs no step. *)
C4_TerminalFeedbackRejected ==
  \A c \in Fbs :
    ch[c].atArrival \in TerminalStates =>
      /\ <<StoredRec(ch[c].tid), StoredStep(ch[c].tid)>> = ch[c].seen
      /\ ch[c].pc = "end"
      /\ ch[c].target = NoStep
      /\ ch[c].reply # "ok"

(* C5: a stored state that is COMPLETED, FAILED or CANCELLED never afterwards
   becomes SUBMITTED, WORKING or INPUT_REQUIRED. *)
C5_TerminalIsAbsorbing ==
  [][\A t \in TaskIds :
       (store[t] # 0 /\ StoredRec(t).state \in TerminalStates) =>
         heap'[t][store'[t]].state \in TerminalStates]_vars

(* C6: the stored history of a task only grows: every newly stored history
   has the previously stored one as a prefix, also when two
   read-modify-write updates of the task overlap. *)
C6_HistoryOnlyGrows ==
  [][\A t \in TaskIds :
       store[t] # 0 => IsPrefix(StoredRec(t).history, heap'[t][store'[t]].history)]_vars

(* a feedback handler and the processTask invocation of the same task are
   both between the WORKING and the INPUT_REQUIRED update of a step *)
C6_Witness ==
  \E c \in Fbs : \E p \in Procs :
    /\ ch[c].tid = ch[p].tid
    /\ ch[c].pc \in {"song_gen", "script_gen", "script_ext"}
    /\ ch[p].pc \in {"song_gen", "script_gen", "script_ext"}
    /\ Len(StoredRec(ch[c].tid).history) >= 3

(* C7: for the updates applied to one task, every registered listener is
   invoked once per update, with the task values in the order the updates
   were applied: none dropped, merged or reordered. *)
C7_NotificationsInOrder ==
  \A L \in listeners : \A t \in TaskIds :
    delivered[L][t] = SubSeq(applied[t], regAt[L][t] + 1, Len(applied[t]))

(* a task updated at least three times after its creation, seen by a listener *)
C7_Witness ==
  \E L \in listeners : \E t \in TaskIds :
    /\ Len(delivered[L][t]) >= 4
    /\ \E i \in 1..(Len(delivered[L][t]) - 1) :
         delivered[L][t][i].state = delivered[L][t][i + 1].state

(* C8: when the processor fails on every attempt, the queue has run it
   maxRetries + 1 times when it gives up, and the task is then FAILED with
   the failure reason in its status message. *)
C8_RetriesThenFailed ==
  \A c \in Procs :
    ch[c].pc = "settled_fail" =>
      /\ Attempts(ch[c].tid) = maxRetries + 1
      /\ StoredRec(ch[c].tid).state = FAILED
      /\ StoredRec(ch[c].tid).msg = ch[c].err

(* C9: FAILED is written to the store only after the last allowed attempt
   has failed; while attempts remain a failure does not store FAILED. *)
C9_FailedOnlyAfterLastAttempt ==
  \A t \in TaskIds :
    (store[t] # 0 /\ StoredRec(t).state = FAILED) => Attempts(t) > maxRetries

(* C10: waiting tasks are admitted in the order they were enqueued, and every
   enqueued entry is admitted exactly once: what was admitted followed by
   what still waits is what was enqueued, and exactly the admitted chains
   have run processTask. *)
C10_FifoAdmission ==
  /\ admitted \o queue = enqueued
  /\ \A i, j \in DOMAIN enqueued : i # j => enqueued[i] # enqueued[j]
  /\ \A c \in Procs :
       (\E i \in DOMAIN admitted : admitted[i] = c) <=> ch[c].pc \notin {"created", "queued"}

(* two tasks waited in the backlog together and both have been admitted *)
C10_Witness ==
  \E c, d \in Procs :
    /\ c # d
    /\ ch[c].waited /\ ch[d].waited
    /\ \E i, j \in DOMAIN admitted : i < j /\ admitted[i] = c /\ admitted[j] = d
    /\ Len(admitted) = 4

(* C11: provided every started processTask invocation eventually settles,
   every task waiting in the backlog eventually has its processor started:
   a settling invocation admits the next backlog entry. *)
C11_BacklogEventuallyAdmitted ==
  \A t \in TaskIds :
    (t \in DOMAIN ch /\ ch[t].pc = "queued")
      ~> (t \in DOMAIN ch /\ ch[t].pc \notin {"created", "queued"})

(* a task that waited in the backlog was admitted by the finally callback of
   another task, which has settled *)
C11_Witness ==
  \E c, d \in Procs :
    /\ ch[c].waited
    /\ ch[c].pc \notin {"created", "queued"}
    /\ ch[d].pc \in {"settled_ok", "settled_fail"}
    /\ queue = <<>>

(* C12: when a task id is enqueued again while a processTask invocation for
   that id is running, no second invocation for the id starts before the
   first has settled: two invocations of one id never run together. *)
C12_NoDuplicateConcurrentRun ==
  \A c, d \in Procs :
    (c # d /\ ch[c].tid = ch[d].tid) => ~(c \in Running /\ d \in Running)

(* the chain c is inside a step: between the entry of stepGenerateSong or
   stepGenerateScriptAndExtractEntities and its return or throw *)
InStep(c) == ch[c].pc \in {"song_card", "song_gen", "script_card", "script_gen", "script_ext"}

(* C13: two step executions of one task are never in progress at once, and
   a feedback message that arrived while the task was WORKING starts no
   step for it. *)
C13_OneStepAtATime ==
  /\ \A c, d \in DOMAIN ch :
       (c # d /\ ch[c].tid = ch[d].tid) => ~(InStep(c) /\ InStep(d))
  /\ \A c \in Fbs : ch[c].atArrival = WORKING => ~InStep(c)

(* C14: when the interpreter returns an action other than accept, retry or
   modify, handleUserFeedback does what it does for accept: currentStep
   becomes the step after the current one and that step is dispatched. *)
C14_UnknownActionIsAccept ==
  \A c \in Fbs :
    (ch[c].action = "other" /\ ch[c].at \in FeedbackSteps) =>
      /\ ch[c].target = StepAfter(ch[c].at)
      /\ StoredStep(ch[c].tid) # ch[c].at

(* C15: after accept at GENERATE_SONG, once the script step has completed
   the stored artifacts are the song artifacts stored before, followed by
   the script artifacts; while the step runs no progress update removes the
   song artifacts from the stored task. *)
C15_ScriptArtifactsAppended ==
  \A c \in Fbs :
    (/\ ch[c].action = "accept" /\ ch[c].at = GENERATE_SONG
     /\ ch[c].seen # <<>> /\ ch[c].atArrival = INPUT_REQUIRED
     /\ ch[c].seen[1].artifacts # <<>>) =>
      /\ (ch[c].pc \in {"script_gen", "script_ext"}) =>
           IsPrefix(ch[c].seen[1].artifacts, StoredRec(ch[c].tid).artifacts)
      /\ (ch[c].pc = "end" /\ ch[c].reply = "ok") =>
           StoredRec(ch[c].tid).artifacts = ch[c].seen[1].artifacts \o ch[c].res

(* C16: a task created by tasks/send with a non-empty text prompt never
   gets the stored status FAILED unless a collaborator call of its
   processor invocation failed. *)
C16_NewTaskReachesSongReview ==
  \A c \in Procs :
    (heap[ch[c].tid][1].message # "blank" /\ ch[c].err # "collaborator failed")
      => StoredRec(ch[c].tid).state # FAILED

(* nothing is pending for task t: every handler and processor invocation
   that concerns it has run to its end *)
Quiescent(t) ==
  /\ store[t] # 0
  /\ \A c \in DOMAIN ch :
       ch[c].tid = t => ch[c].pc \in {"subscribed", "settled_ok", "settled_fail", "end"}

(* C17: once every collaborator call made for a created task has returned
   or failed and nothing is pending for it, its stored state is
   INPUT_REQUIRED or terminal: no task is left in SUBMITTED or WORKING. *)
C17_NoTaskLeftInProgress ==
  \A t \in TaskIds :
    Quiescent(t) => StoredRec(t).state \in {INPUT_REQUIRED} \cup TerminalStates

(* C18: when a collaborator call fails during a step, whether the step runs
   in the processor invocation of the queue or in a feedback handler, the
   stored task becomes FAILED with the error text as its status message. *)
C18_StepFailureStoresFailed ==
  [][\A c \in DOMAIN ch :
       (InStep(c) /\ ch[c].err = "" /\ ch'[c].err # "") =>
         /\ StoredRec(ch[c].tid)'.state = FAILED
         /\ StoredRec(ch[c].tid)'.msg = ch'[c].err]_vars

(* C19: a feedback message whose taskId is not in the store is answered
   with error -32000 "Task not found"; it creates and modifies no task and
   no status listener is notified. *)
C19_UnknownTaskFeedbackRejected ==
  [][\A c \in DOMAIN ch' :
       (c \notin DOMAIN ch /\ ch'[c].atArrival = "absent") =>
         /\ ch'[c].reply = "error-32000" /\ ch'[c].pc = "end"
         /\ store' = store /\ heap' = heap /\ cells' = cells
         /\ applied' = applied /\ delivered' = delivered
         /\ queue' = queue /\ processing' = processing]_vars

C19_Witness ==
  \E c \in Fbs :
    /\ ch[c].atArrival = "absent" /\ ch[c].reply = "error-32000"
    /\ store[ch[c].tid] = 0
    /\ \E t \in TaskIds : store[t] # 0

(* C20: every accept feedback handled at a step S of the fixed order makes
   the dispatcher execute the step right after S: starting from
   GENERATE_SONG the accepts walk through the script, image, video clip and
   compile steps to COMPLETED, and none of these steps is rejected as
   unknown by the step dispatcher. *)
C20_AcceptsWalkAllSteps ==
  \A c \in Fbs :
    (ch[c].action = "accept" /\ ch[c].at \in FeedbackSteps /\ ch[c].atArrival = INPUT_REQUIRED) =>
      /\ StoredStep(ch[c].tid) \in {ch[c].at, StepAfter(ch[c].at)}
      /\ ch[c].err # "Unknown orchestration step"

(* C21: the step dispatcher invoked on a task whose currentStep is COMPLETED
   or FAILED takes no action: it raises no error, calls no collaborator and
   emits no progress. *)
C21_TerminalStepNoAction ==
  \A c \in DOMAIN ch :
    (ch[c].dispatched /\ ch[c].target \in {STEP_COMPLETED, STEP_FAILED}) =>
      /\ ch[c].err = ""
      /\ ch[c].prog = <<>>
      /\ ch[c].gen = 0

(* C22: the step dispatcher invoked on a task whose currentStep is no value
   of OrchestrationStep, or is absent, raises an error that reaches its
   caller, calls no collaborator and emits no progress. *)
C22_UnknownStepRaises ==
  \A c \in DOMAIN ch :
    (ch[c].dispatched /\ ch[c].target \notin OrchestrationStep) =>
      /\ ch[c].err = "Unknown orchestration step"
      /\ ch[c].pc \in {"end", "done_fail", "settled_fail"}
      /\ IsFb(c) => ch[c].reply = "error-32001"
      /\ ch[c].prog = <<>>
      /\ ch[c].gen = 0

C22_Witness ==
  /\ \E c \in Fbs : ch[c].dispatched /\ ch[c].target = "bogus" /\ ch[c].reply = "error-32001"
  /\ \E t \in TaskIds : store[t] # 0 /\ StoredStep(t) = "bogus"

(* a step execution of chain c has returned without error *)
StepReturned(c) ==
  /\ ch[c].dispatched /\ ch[c].err = ""
  /\ ch[c].pc \in {"done_ok", "settled_ok", "end"}

(* C23: every step execution that returns without error has emitted a WORKING
   progress first and an INPUT_REQUIRED or terminal progress last; no step
   returns with WORKING as the last state it emitted. *)
C23_StepEndsParkedOrTerminal ==
  \A c \in DOMAIN ch :
    StepReturned(c) =>
      /\ Len(ch[c].prog) >= 2
      /\ ch[c].prog[1] = WORKING
      /\ ch[c].prog[Len(ch[c].prog)] \in {INPUT_REQUIRED} \cup TerminalStates
      /\ \A i \in 1..(Len(ch[c].prog) - 1) : ch[c].prog[i] = WORKING

C23_Witness ==
  /\ \E c \in Procs : StepReturned(c) /\ ch[c].target = GENERATE_SONG
                       /\ ch[c].prog = <<WORKING, INPUT_REQUIRED>>
  /\ \E c \in Fbs : StepReturned(c) /\ ch[c].target = GENERATE_SCRIPT_AND_EXTRACT_ENTITIES
                     /\ ch[c].prog = <<WORKING, WORKING, INPUT_REQUIRED>>

(* C24: the stored record of a task changes only through createTask and
   updateTask: whenever the status, history, artifacts or currentStep of a
   stored task changes, a store update recorded the new value and notified
   the listeners; the step engine never alters the stored record in place. *)
C24_StoreIsOnlyWriter ==
  [][\A t \in TaskIds :
       (store[t] # 0 /\ (StoredRec(t)' # StoredRec(t) \/ StoredStep(t)' # StoredStep(t))) =>
         /\ Len(applied'[t]) > Len(applied[t])
         /\ applied'[t][Len(applied'[t])].step = StoredStep(t)'
         /\ Len(delivered'[0][t]) > Len(delivered[0][t])]_vars

(* C25: enqueueTask completes as soon as admission has been attempted: the
   call has returned whenever its task waits in the backlog or is being
   processed, so its completion never waits for any processor to settle. *)
C25_EnqueueReturnsAtAdmission ==
  \A c \in Procs :
    (c \in Running \/ ch[c].pc = "queued") => ch[c].enqReturned

C25_Witness ==
  /\ \E c \in Procs : ch[c].pc = "queued" /\ ch[c].enqReturned
  /\ \E c \in Running : ch[c].enqReturned
  /\ \A c \in Procs : ch[c].pc \notin {"settled_ok", "settled_fail"}

(* the store call made in this step, when one is *)
LastCall == calls'[Len(calls')]

(* C26: updateTask for a task id that is not in the store fails with a
   task-not-found error, stores nothing and notifies no listener. *)
C26_UpdateOfUnknownTaskFails ==
  [][(Len(calls') > Len(calls) /\ LastCall.op = "updateTask" /\ ~LastCall.present) =>
       /\ LastCall.err = "TaskNotFound"
       /\ store' = store
       /\ delivered' = delivered]_vars

(* C27: when a registered listener fails while it is notified of a createTask
   or updateTask, the store holds the new record, every registered listener
   has been invoked for that mutation, and the call itself does not fail. *)
C27_ListenerFailureIsContained ==
  [][(Len(calls') > Len(calls) /\ LastCall.failing # {}) =>
       /\ store'[LastCall.tid] = Len(heap'[LastCall.tid])
       /\ \A L \in listeners :
            Len(delivered'[L][LastCall.tid]) = Len(delivered[L][LastCall.tid]) + 1
       /\ LastCall.err = ""]_vars

(* the snapshot of what getTask(t) returns *)
StoredSnapshot(t) == Snapshot(World, t, store[t])

(* C28: for every createTask and updateTask, each registered listener is
   invoked with the task while the store already holds it, and all the
   invocations have been made when the call returns. *)
C28_ListenersNotifiedAfterStore ==
  [][\A t \in TaskIds :
       applied'[t] # applied[t] =>
         \A L \in listeners' :
           delivered'[L][t] = Append(delivered[L][t], StoredSnapshot(t)')]_vars

C28_Witness ==
  \E t \in TaskIds :
    /\ t \in listeners
    /\ Len(applied[t]) >= 3
    /\ delivered[t][t] = applied[t]
    /\ delivered[0][t] = applied[t]
    /\ delivered[0][t][Len(applied[t])] = StoredSnapshot(t)

(* addStatusListener was called for listener L: the controller's listener
   at construction, the listener of a task created over WebSocket *)
Registered(L) == L = 0 \/ (heap[L] # <<>> /\ heap[L][1].message = "none")

(* C29: a listener registered with addStatusListener is invoked on every
   later createTask and updateTask until removeStatusListener is called for
   it, and is never invoked after that. *)
C29_ListenerInvokedUntilRemoved ==
  [][\A t \in TaskIds : \A L \in Listeners :
       applied'[t] # applied[t] =>
         IF L \in removed'
           THEN delivered'[L][t] = delivered[L][t]
           ELSE Registered(L)' => Len(delivered'[L][t]) = Len(delivered[L][t]) + 1]_vars

C29_Witness ==
  \E L \in removed :
    /\ Len(delivered[L][L]) >= 2
    /\ Len(applied[L]) > Len(delivered[L][L])

(* C30: for every OrchestrationIO implementation, onProgress for a task that
   is not in the store raises an error to the step engine; it never returns
   as if the progress had been stored. *)
C30_ProgressOfMissingTaskFails ==
  \A c \in DOMAIN ch :
    (ch[c].pc \in {"io_returned", "io_failed"} /\ ch[c].atArrival = "absent") =>
      /\ ch[c].pc = "io_failed"
      /\ ch[c].err # ""

(* C31: a task created by tasks/sendSubscribe is stored with state SUBMITTED
   and is given to the queue, in SSE mode and in webhook mode alike: once
   the handler is past createTask, enqueueTask is about to be called or has
   been called for the task. *)
C31_SubscribedTaskIsEnqueued ==
  \A c \in Procs :
    /\ applied[ch[c].tid][1].state = SUBMITTED
    /\ \/ ch[c].pc = "created"
       \/ \E i \in DOMAIN enqueued : enqueued[i] = c

(* the events written to the SSE response of task t: those of the
   notifications that follow subscribeSSE, which is called after createTask
   has notified the SUBMITTED record *)
SseStream(t) == eventsOf(Tail(delivered[0][t]))

(* C32: every completion event an SSE subscriber of a task receives comes
   right after a status_update event carrying the same final state. *)
C32_CompletionFollowsFinalStatus ==
  \A c \in Procs :
    ch[c].mode = "sse" =>
      LET s == SseStream(ch[c].tid)
      IN \A i \in DOMAIN s :
           s[i].type = COMPLETION =>
             /\ i > 1
             /\ s[i - 1].type = STATUS_UPDATE
             /\ s[i - 1].state = s[i].state

(* C33: a tasks/send request whose message is missing, has no text part or
   has an empty text is answered with an error at the transport binding,
   over HTTP and over WebSocket, and no task is created or enqueued for it. *)
C33_EmptyMessageRejected ==
  \A i \in DOMAIN requests :
    requests[i].message \in {"empty", "notext", "missing"} =>
      /\ requests[i].reply = "error-32602"
      /\ requests[i].tid = 0

(* C34: whenever the stored state of a task is INPUT_REQUIRED and every
   feedback handled for it so far has been processed without error, its
   stored currentStep names the step whose output awaits feedback: the step
   that has just run did not advance it. *)
C34_CurrentStepIsParkedStep ==
  \A t \in TaskIds :
    (/\ store[t] # 0
     /\ StoredRec(t).state = INPUT_REQUIRED
     /\ \A c \in Fbs : ch[c].tid = t => (ch[c].pc = "end" /\ ch[c].reply = "ok")
     /\ \A c \in Procs : ch[c].tid = t => ch[c].pc \in {"settled_ok", "settled_fail"}) =>
      StoredStep(t) = parkedStep(World, t)

(* C35: in the script step the three extractions are started together, the
   INPUT_REQUIRED progress is emitted only when all three have completed,
   and when one of them fails the step fails without emitting INPUT_REQUIRED. *)
C35_ExtractionsJoinBeforeParking ==
  \A c \in DOMAIN ch :
    /\ ch[c].ext.started \in {0, Extractions}
    /\ ch[c].ext.done > 0 => ch[c].ext.started = Extractions
    /\ (\E i \in DOMAIN ch[c].prog : ch[c].prog[i] = INPUT_REQUIRED)
         /\ ch[c].target = GENERATE_SCRIPT_AND_EXTRACT_ENTITIES =>
         (ch[c].ext.done = Extractions /\ ~ch[c].ext.failed)
    /\ ch[c].ext.failed =>
         /\ ch[c].err = "collaborator failed"
         /\ \A i \in DOMAIN ch[c].prog : ch[c].prog[i] # INPUT_REQUIRED

C35_Witness ==
  /\ \E c \in Fbs : /\ ch[c].ext.done = Extractions
                     /\ ch[c].prog = <<WORKING, WORKING, INPUT_REQUIRED>>
                     /\ StoredRec(ch[c].tid).state = INPUT_REQUIRED

(* C36: a step re-run on retry or modify with a newInput hands the newInput
   to its generation collaborator; a song step run without a newInput hands
   over the most recent message of role 'user' of the task's history. *)
C36_StepInputIsNewInputOrLastUserMessage ==
  [][\A c \in DOMAIN ch :
       (ch[c].input.src = "none" /\ ch'[c].input.src # "none") =>
         IF ch'[c].newInput
           THEN ch'[c].input.src = "newInput"
           ELSE /\ ch'[c].input.src # "newInput"
                /\ (/\ ch'[c].target = GENERATE_SONG
                    /\ userComment(heap'[ch'[c].tid][ch'[c].task].history) # NoEntry) =>
                     ch'[c].input.entry =
                       userComment(heap'[ch'[c].tid][ch'[c].task].history)]_vars

(* C37: when handleUserFeedback finds no message of role 'user' in the
   history of its task, it ends with an error without calling the
   interpreter: no step is dispatched, no progress is emitted, nothing is
   stored and no currentStep changes. *)
C37_NoUserMessageFailsBeforeInterpreter ==
  [][\A c \in Fbs :
       (/\ ch[c].pc = "fb_llm" /\ ch'[c].pc # "fb_llm"
        /\ userComment(heap[ch[c].tid][ch[c].task].history) = NoEntry) =>
         /\ ch'[c].err # "" /\ ch'[c].reply = "error-32001"
         /\ ~ch'[c].interpreted /\ ~ch'[c].dispatched
         /\ ch'[c].prog = <<>>
         /\ cells' = cells /\ heap' = heap /\ store' = store /\ applied' = applied]_vars

C37_Witness ==
  \E c \in Fbs :
    /\ ch[c].err = "No user message found in history for LLM feedback interpretation."
    /\ ch[c].reply = "error-32001"
    /\ StoredStep(ch[c].tid) = GENERATE_SONG

(* what the statusListener of the connection that created task L has sent
   on its socket about task t: the store invokes it for every task, and it
   sends only when updatedTask.id is the id of its own task *)
statusListener(L, t) == IF t = L THEN delivered[L][t] ELSE <<>>

(* the tasks created over WebSocket *)
WsTasks == {t \in TaskIds : heap[t] # <<>> /\ heap[t][1].message = "none"}

(* C38: the socket of a task created over WebSocket receives that task's
   snapshots from the SUBMITTED one on, each update once and in the order
   applied, for as long as the connection is open, and nothing about any
   other task. *)
C38_SocketReceivesOwnTaskFromSubmitted ==
  \A L \in WsTasks :
    /\ applied[L] # <<>> =>
         /\ statusListener(L, L) # <<>>
         /\ statusListener(L, L)[1] = applied[L][1]
         /\ statusListener(L, L)[1].state = SUBMITTED
    /\ IsPrefix(statusListener(L, L), applied[L])
    /\ L \in listeners => statusListener(L, L) = applied[L]
    /\ \A t \in TaskIds \ {L} : statusListener(L, t) = <<>>

C38_Witness ==
  \E L \in WsTasks : \E t \in TaskIds \ {L} :
    /\ L \in listeners
    /\ Len(statusListener(L, L)) >= 3
    /\ statusListener(L, L)[Len(statusListener(L, L))].state = FAILED
    /\ Len(delivered[L][t]) >= 2

(* the invocations of fn, and the sleeps, in the log of a withRetry run *)
CallsOf(rec) == Cardinality({j \in DOMAIN rec.log : rec.log[j].ev = "call"})
SleepsOf(rec) == Cardinality({j \in DOMAIN rec.log : rec.log[j].ev = "sleep"})

(* C39: withRetry(fn, n, delay) invokes fn at most n times; it resolves with
   the value of the first invocation that succeeds and invokes fn no more;
   it sleeps delay between two invocations and not after the last one; and
   it rejects only after n failed invocations, with the error of the last
   (with undefined when n is 0 and fn was never invoked). *)
C39_WithRetryBoundedAttempts ==
  \A r \in DOMAIN retry :
    LET rec == retry[r]
    IN /\ CallsOf(rec) <= rec.retries
       /\ \A j \in DOMAIN rec.log :
            /\ rec.log[j].ev = (IF j % 2 = 1 THEN "call" ELSE "sleep")
            /\ rec.log[j].ev = "sleep" => rec.log[j].ms = rec.delayMs
       /\ rec.pc \in {"resolved", "rejected"} =>
            (rec.log = <<>> \/ rec.log[Len(rec.log)].ev = "call")
       /\ rec.pc = "resolved" => rec.result = CallsOf(rec)
       /\ rec.pc = "rejected" =>
            /\ CallsOf(rec) = rec.retries
            /\ rec.error = rec.retries
            /\ rec.result = 0

C39_Witness ==
  /\ \E r \in DOMAIN retry :
       /\ retry[r].pc = "rejected" /\ retry[r].retries = 3 /\ retry[r].delayMs = 2000
       /\ CallsOf(retry[r]) = 3 /\ SleepsOf(retry[r]) = 2
  /\ \E r \in DOMAIN retry :
       /\ retry[r].pc = "resolved" /\ retry[r].retries = 3
       /\ retry[r].result = 2 /\ SleepsOf(retry[r]) = 1

====
